---- MODULE Spec2Model ----
(***************************************************************************)
(* Conversational memory store: the ingestor service (write path), the     *)
(* contextualizer service (read path), the QdrantMemory wrapper and the    *)
(* embed_head service, over one Qdrant collection.                         *)
(*                                                                         *)
(* Python dicts are modelled as total records over the key universe        *)
(* {text, role, conversation_id, ts, tag}; a key that is not in the dict   *)
(* holds the marker NoStr (NoInt for the integer key ts).  Python's None   *)
(* for an Optional[int] is NoInt; None / {} for an Optional[dict] is       *)
(* EmptyDict (the code only tests such a dict for truthiness).             *)
(***************************************************************************)
EXTENDS Integers, Sequences, FiniteSets, TLC

VARIABLES collection, points, ingestorUp, memInstances, ensureCalls,
          creations, indexCreations, uuids, client, constructed,
          tpc, tloc, tused, ens, last

vars == <<collection, points, ingestorUp, memInstances, ensureCalls,
          creations, indexCreations, uuids, client, constructed,
          tpc, tloc, tused, ens, last>>

(* ------------------------------ bounds --------------------------------- *)
MaxPoints == 2
MaxBatch == 2
MaxInstances == 2
NumThreads == 2
Now == 9

(* --------------------------- program constants ------------------------- *)
KMax == 30
MinQueryItems == 3

NoStr == "<absent>"
NoInt == 0 - 1

(* ------------------------------ dicts ---------------------------------- *)
EmptyDict ==
  [text |-> NoStr, role |-> NoStr, conversation_id |-> NoStr,
   ts |-> NoInt, tag |-> NoStr]

\* dict.update(e): every key present in e replaces the key of p
DictUpdate(p, e) ==
  [text            |-> IF e.text # NoStr THEN e.text ELSE p.text,
   role            |-> IF e.role # NoStr THEN e.role ELSE p.role,
   conversation_id |-> IF e.conversation_id # NoStr
                       THEN e.conversation_id ELSE p.conversation_id,
   ts              |-> IF e.ts # NoInt THEN e.ts ELSE p.ts,
   tag             |-> IF e.tag # NoStr THEN e.tag ELSE p.tag]

\* truthiness of an Optional[dict]: None and {} are falsy
Truthy(d) == d # EmptyDict

(* ------------------------------ inputs --------------------------------- *)
ExtraConflict == [EmptyDict EXCEPT !.conversation_id = "c2", !.tag = "x"]

ItemsScoped ==
  [text : {"a", "b"}, conversation_id : {"c1"}, role : {"user"},
   timestamp : {7}, extra_payload : {EmptyDict}]
  \cup
  [text : {"a"}, conversation_id : {"c2"}, role : {"user"},
   timestamp : {7}, extra_payload : {EmptyDict}]

ItemsExtra ==
  [text : {"a"}, conversation_id : {"c1"}, role : {"user"},
   timestamp : {7}, extra_payload : {ExtraConflict}]

ItemsEmpty ==
  [text : {""}, conversation_id : {"c1"}, role : {"user"},
   timestamp : {7}, extra_payload : {EmptyDict}]
  \cup
  [text : {"a"}, conversation_id : {""}, role : {"user"},
   timestamp : {7}, extra_payload : {EmptyDict}]

ItemsTimed ==
  [text : {"a"}, conversation_id : {"c1"}, role : {"user"},
   timestamp : {NoInt, 0}, extra_payload : {EmptyDict}]

Items == ItemsScoped \cup ItemsExtra \cup ItemsEmpty \cup ItemsTimed

\* items of a batch (_store takes no branch on an item before the upsert
\* except the truthiness of extra_payload; every item goes through IngestOne)
BatchItems ==
  [text : {"a"}, conversation_id : {"c1"}, role : {"user"},
   timestamp : {7}, extra_payload : {EmptyDict}]

Batches == UNION {[1..n -> BatchItems] : n \in 1..MaxBatch}

QueryVectors == {<<1, 0, 0>>, <<1, 1, 0>>}
QueryConvs == {"c1", "c2"}
QueryKs == {0, 1, 2, KMax, KMax + 1}

\* what one POST to the embedding endpoint can come back with: 200 with a
\* vector, non-success without / with a vector field, 200 lacking the
\* vector field, no response in time
EmbedOutcomes == {"ok", "err", "err_vec", "novec", "timeout"}

(* --------------------------- embed_head -------------------------------- *)
\* SentenceTransformer.encode: a fixed text -> vector table
Encode(t) ==
  CASE t = "a" -> <<1, 0, 0>>
    [] t = "b" -> <<0, 1, 0>>
    [] OTHER   -> <<1, 1, 0>>

(* --------------------------- vector store ------------------------------ *)
Dot(q, v) == q[1] * v[1] + q[2] * v[2] + q[3] * v[3]

Abs(x) == IF x < 0 THEN 0 - x ELSE x

\* cosine similarity, as 100 * sign(cos) * cos^2 (monotone in the cosine)
Score(q, v) == (100 * Dot(q, v) * Abs(Dot(q, v))) \div (Dot(q, q) * Dot(v, v))

Min(a, b) == IF a < b THEN a ELSE b

\* Filter(must=[FieldCondition(key="conversation_id", match=MatchValue(c))])
Matching(pts, c) == {p \in pts : p.payload.conversation_id = c}

\* the rankings a filtered nearest-neighbour search may return: the best
\* `limit` matching points, best first, ties in any order
SearchResults(pts, q, c, limit) ==
  LET M == Matching(pts, c)
      n == Min(limit, Cardinality(M))
  IN  {s \in [1..n -> M] :
         /\ \A i, j \in 1..n : i # j => s[i] # s[j]
         /\ \A i, j \in 1..n :
              i < j => Score(q, s[i].vector) >= Score(q, s[j].vector)
         /\ \A p \in M : (\A i \in 1..n : s[i] # p) =>
              \A i \in 1..n : Score(q, s[i].vector) >= Score(q, p.vector)}

\* point upsert: a point with an id already stored replaces that point
StoreUpsert(pts, new) ==
  {p \in pts : \A n \in new : n.id # p.id} \cup new

(* --------------------------- response record --------------------------- *)
\* what the last handler did and answered
NoLast ==
  [op |-> "none", status |-> "none", n |-> 0, invalid |-> FALSE,
   failAt |-> 0, embedCalls |-> 0, upserts |-> 0, searches |-> 0,
   created |-> 0, indexes |-> 0, k |-> 0, conv |-> NoStr, q |-> <<>>,
   hits |-> <<>>, existed |-> FALSE, stored |-> {}, run |-> <<>>,
   storeUp |-> FALSE]

Threads == 1..NumThreads

\* the processes that run an _ensure_collection at start
Procs == {"ingestor", "mem"}

Init ==
  /\ collection = FALSE
  /\ points = {}
  /\ ingestorUp = FALSE
  /\ memInstances = 0
  /\ ensureCalls = 0
  /\ creations = 0
  /\ indexCreations = 0
  /\ uuids = 0
  /\ client = 0
  /\ constructed = 0
  /\ tpc = [t \in Threads |-> "idle"]
  /\ tloc = [t \in Threads |-> 0]
  /\ tused = [t \in Threads |-> 0]
  /\ ens = [p \in Procs |-> [pc |-> "start", saw |-> FALSE]]
  /\ last = NoLast

(* ------------------------- Collection Manager -------------------------- *)
\* ingestor _ensure_collection: collections / payload indexes it creates
\* when the listing does / does not contain COLLECTION
IngestorEnsureCreates(exists) == IF exists THEN 0 ELSE 1
IngestorEnsureIndexes(exists) == IF exists THEN 0 ELSE 2

\* QdrantMemory._ensure_collection: the same decision
\* mutation: recreate without looking at the listing
MemEnsureCreates_Always(exists) == 1

MemEnsureCreates(exists) == IF exists THEN 0 ELSE 1
MemEnsureIndexes(exists) == IF exists THEN 0 ELSE 2

\* the effect on the store of `created` recreate_collection calls and
\* `indexes` create_payload_index calls (recreate drops what was stored)
EnsureEffect(op, created, indexes) ==
  /\ collection' = (collection \/ created > 0)
  /\ points' = IF created > 0 THEN {} ELSE points
  /\ creations' = creations + created
  /\ indexCreations' = indexCreations + indexes
  /\ ensureCalls' = ensureCalls + 1
  /\ last' = [NoLast EXCEPT !.op = op, !.status = "ok",
                            !.existed = collection,
                            !.created = created, !.indexes = indexes]

EnsureFailed(op) ==
  /\ last' = [NoLast EXCEPT !.op = op, !.status = "exc",
                            !.existed = collection]
  /\ UNCHANGED <<collection, points, creations, indexCreations, ensureCalls>>

\* ingestor process start: module import runs _ensure_collection()
IngestorStartup ==
  /\ ~ingestorUp
  /\ \E storeUp \in BOOLEAN :
       IF storeUp
       THEN /\ EnsureEffect("ingestor_startup",
                            IngestorEnsureCreates(collection),
                            IngestorEnsureIndexes(collection))
            /\ ingestorUp' = TRUE
       ELSE /\ EnsureFailed("ingestor_startup")
            /\ UNCHANGED ingestorUp
  /\ UNCHANGED <<memInstances, uuids, client, constructed, tpc, tloc, tused, ens>>

\* QdrantMemory.__init__
MemConstruct ==
  /\ memInstances < MaxInstances
  /\ \E storeUp \in BOOLEAN :
       IF storeUp
       THEN /\ EnsureEffect("mem_construct",
                            MemEnsureCreates(collection),
                            MemEnsureIndexes(collection))
            /\ memInstances' = memInstances + 1
       ELSE /\ EnsureFailed("mem_construct")
            /\ UNCHANGED memInstances
  /\ UNCHANGED <<ingestorUp, uuids, client, constructed, tpc, tloc, tused, ens>>

(* --------------------------- Memory Writer ----------------------------- *)
\* Item: the pydantic model accepts every str for text / conversation_id
ItemAccepted(itm) == TRUE

\* Item._ts validator: v or int(time.time())
ItemTs(v) == IF v = NoInt \/ v = 0 THEN Now ELSE v

\* mutation: a missing vector field is read as None instead of raising
IngestEmbedRaises_Swallow == {"timeout"}

\* ingestor _embed: requests.post(...).json()["vector"], status not looked at
IngestEmbedRaises == {"timeout", "err", "novec"}

\* the responses to the POSTs a list comprehension over n texts makes: it
\* stops at the first one that raises
EmbedRuns(n, raises) ==
  UNION {{r \in [1..m -> EmbedOutcomes] :
            /\ \A i \in 1..(m - 1) : r[i] \notin raises
            /\ m < n => r[m] \in raises} : m \in 1..n}

\* index of the call that raised, 0 if none did
FailAt(run, raises) ==
  IF run[Len(run)] \in raises THEN Len(run) ELSE 0

\* _store: payload of one point
StorePayload(itm) ==
  LET base == [text |-> itm.text, role |-> itm.role,
               conversation_id |-> itm.conversation_id,
               ts |-> ItemTs(itm.timestamp), tag |-> NoStr]
  IN  IF Truthy(itm.extra_payload)
      THEN DictUpdate(base, itm.extra_payload)
      ELSE base

\* mutation: one identifier drawn once and used for every point
UuidId_Fixed(n) == [kind |-> "uuid", n |-> 1, conversation_id |-> NoStr,
                    ts |-> NoInt, role |-> NoStr, h |-> 0]

\* str(uuid4()): the n-th identifier drawn, never drawn before
UuidId(n) == [kind |-> "uuid", n |-> n, conversation_id |-> NoStr,
              ts |-> NoInt, role |-> NoStr, h |-> 0]

\* _store: the PointStructs built for a batch
StorePoints(items) ==
  {[id |-> UuidId(uuids + i),
    vector |-> Encode(items[i].text),
    payload |-> StorePayload(items[i]),
    item |-> items[i]] : i \in 1..Len(items)}

HasEmptyField(items) ==
  \E i \in 1..Len(items) : items[i].text = "" \/ items[i].conversation_id = ""

\* _store(items) behind ingest_one / ingest_batch
Store(op, items) ==
  /\ ingestorUp
  /\ \A i \in 1..Len(items) : ItemAccepted(items[i])
  /\ \E run \in EmbedRuns(Len(items), IngestEmbedRaises), storeUp \in BOOLEAN :
       LET f == FailAt(run, IngestEmbedRaises)
           new == StorePoints(items)
           rec == [NoLast EXCEPT !.op = op, !.n = Len(items), !.failAt = f,
                                 !.invalid = HasEmptyField(items),
                                 !.existed = collection, !.run = run,
                                 !.embedCalls = Len(run)]
       IN  IF f # 0
           THEN /\ last' = [rec EXCEPT !.status = "502"]
                /\ UNCHANGED <<points, uuids>>
           ELSE IF storeUp /\ collection
           THEN /\ Cardinality(points) + Len(items) <= MaxPoints
                /\ points' = StoreUpsert(points, new)
                /\ uuids' = uuids + Len(items)
                /\ last' = [rec EXCEPT !.status = "201", !.upserts = 1,
                                       !.storeUp = TRUE, !.stored = new]
           ELSE /\ last' = [rec EXCEPT !.status = "502", !.upserts = 1,
                                       !.storeUp = storeUp]
                /\ UNCHANGED <<points, uuids>>
  /\ UNCHANGED <<collection, ingestorUp, memInstances, ensureCalls, creations,
                 indexCreations, client, constructed, tpc, tloc, tused, ens>>

\* POST /memory
IngestOne == \E itm \in Items : Store("ingest_one", <<itm>>)

\* POST /memory/batch
IngestBatch == \E items \in Batches : Store("ingest_batch", items)

(* --------------------------- Memory Retriever -------------------------- *)
\* mutation: ge=0 in place of gt=0
ReqValid_GeZero(q, k) == Len(q) >= MinQueryItems /\ k >= 0 /\ k <= KMax

\* ContextReq: query_vector min_items=3, k gt=0 le=30
ReqValid(q, k) == Len(q) >= MinQueryItems /\ k > 0 /\ k <= KMax

\* top_k: projection of the store's hits (src: the point behind the hit)
Project(h, q) ==
  [text |-> h.payload.text,
   role |-> IF h.payload.role = NoStr THEN "unknown" ELSE h.payload.role,
   timestamp |-> h.payload.ts,
   score |-> Score(q, h.vector),
   src |-> h]

\* mutation: the comprehension loses the last hit
TopKResult_DropLast(s, q) == [i \in 1..(Len(s) - 1) |-> Project(s[i], q)]

TopKResult(s, q) == [i \in 1..Len(s) |-> Project(s[i], q)]

\* mutation: the exception is swallowed and an empty answer returned
ContextStatus_Swallow(served) == "200"

\* context: 200 with the hits, or HTTPException(500) when top_k raised
ContextStatus(served) == IF served THEN "200" ELSE "500"

\* POST /context: validation, then top_k through the lazy client
Context ==
  \E k \in QueryKs, c \in QueryConvs, q \in QueryVectors :
    /\ IF ~ReqValid(q, k)
       THEN /\ last' = [NoLast EXCEPT !.op = "context", !.status = "422",
                                      !.k = k, !.existed = collection]
            /\ UNCHANGED <<client, constructed>>
       ELSE /\ client' = IF client = 0 THEN constructed + 1 ELSE client
            /\ constructed' = IF client = 0 THEN constructed + 1
                              ELSE constructed
            /\ \E storeUp \in BOOLEAN :
                 LET rec == [NoLast EXCEPT !.op = "context", !.k = k,
                                           !.conv = c, !.q = q,
                                           !.searches = 1,
                                           !.storeUp = storeUp,
                                           !.existed = collection]
                 IN  IF storeUp /\ collection
                     THEN \E s \in SearchResults(points, q, c, k) :
                            last' = [rec EXCEPT !.status = ContextStatus(TRUE),
                                                !.hits = TopKResult(s, q)]
                     ELSE last' = [rec EXCEPT !.status = ContextStatus(FALSE)]
    /\ UNCHANGED <<collection, points, ingestorUp, memInstances, ensureCalls,
                   creations, indexCreations, uuids, tpc, tloc, tused, ens>>

(* --------------------------- QdrantMemory ------------------------------ *)
\* upsert_memory: ts = ts or int(time.time())
MemTs(v) == IF v = NoInt \/ v = 0 THEN Now ELSE v

\* QdrantMemory.embed: raise_for_status(), then .json()["vector"]
MemEmbedRaises == {"timeout", "err", "err_vec", "novec"}

\* hash(text)
Hash(t) ==
  CASE t = "" -> 0
    [] t = "a" -> 1
    [] OTHER -> 2

\* upsert_memory: the point id f"{conversation_id}-{ts}-{role}-{hash(text)}"
MemId(itm) == [kind |-> "det", n |-> 0,
               conversation_id |-> itm.conversation_id,
               ts |-> MemTs(itm.timestamp), role |-> itm.role,
               h |-> Hash(itm.text)]

\* upsert_memory: payload
MemPayload(itm) ==
  LET base == [text |-> itm.text, role |-> itm.role,
               conversation_id |-> itm.conversation_id,
               ts |-> MemTs(itm.timestamp), tag |-> NoStr]
  IN  IF Truthy(itm.extra_payload)
      THEN DictUpdate(base, itm.extra_payload)
      ELSE base

\* QdrantMemory.upsert_memory(text, conversation_id, role, ts, extra_payload)
MemUpsert ==
  /\ memInstances > 0
  /\ \E itm \in Items, run \in EmbedRuns(1, MemEmbedRaises),
        storeUp \in BOOLEAN :
       LET f == FailAt(run, MemEmbedRaises)
           new == {[id |-> MemId(itm), vector |-> Encode(itm.text),
                    payload |-> MemPayload(itm), item |-> itm]}
           rec == [NoLast EXCEPT !.op = "mem_upsert", !.n = 1, !.failAt = f,
                                 !.invalid = HasEmptyField(<<itm>>),
                                 !.existed = collection, !.run = run,
                                 !.embedCalls = 1]
       IN  IF f # 0
           THEN /\ last' = [rec EXCEPT !.status = "exc"]
                /\ UNCHANGED points
           ELSE IF storeUp /\ collection
           THEN /\ Cardinality(StoreUpsert(points, new)) <= MaxPoints
                /\ points' = StoreUpsert(points, new)
                /\ last' = [rec EXCEPT !.status = "ok", !.upserts = 1,
                                       !.storeUp = TRUE, !.stored = new]
           ELSE /\ last' = [rec EXCEPT !.status = "exc", !.upserts = 1,
                                       !.storeUp = storeUp]
                /\ UNCHANGED points
  /\ UNCHANGED <<collection, ingestorUp, memInstances, ensureCalls, creations,
                 indexCreations, uuids, client, constructed, tpc, tloc, tused, ens>>

(* ------------- concurrent starts running _ensure_collection ------------ *)
\* the process is up once its _ensure_collection has returned
ProcUp(p) ==
  /\ ensureCalls' = ensureCalls + 1
  /\ IF p = "ingestor"
     THEN ingestorUp' = TRUE /\ UNCHANGED memInstances
     ELSE memInstances' = memInstances + 1 /\ UNCHANGED ingestorUp

\* _ensure_collection: get_collections() and the membership test
EList(p) ==
  /\ ens[p].pc = "start"
  /\ \E storeUp \in BOOLEAN :
       ens' = [ens EXCEPT ![p] = IF storeUp
                                 THEN [pc |-> "listed", saw |-> collection]
                                 ELSE [pc |-> "failed", saw |-> FALSE]]
  /\ UNCHANGED <<collection, points, ingestorUp, memInstances, ensureCalls,
                 creations, indexCreations, uuids, client, constructed,
                 tpc, tloc, tused, last>>

\* _ensure_collection: recreate_collection(...) when the name was not listed
ECreate(p) ==
  /\ ens[p].pc = "listed"
  /\ LET created == IF p = "ingestor"
                    THEN IngestorEnsureCreates(ens[p].saw)
                    ELSE MemEnsureCreates(ens[p].saw)
     IN  IF created > 0
         THEN /\ collection' = TRUE
              /\ points' = {}
              /\ creations' = creations + created
              /\ ens' = [ens EXCEPT ![p].pc = "index"]
              /\ UNCHANGED <<ingestorUp, memInstances, ensureCalls>>
         ELSE /\ ens' = [ens EXCEPT ![p].pc = "done"]
              /\ ProcUp(p)
              /\ UNCHANGED <<collection, points, creations>>
  /\ UNCHANGED <<indexCreations, uuids, client, constructed, tpc, tloc,
                 tused, last>>

\* _ensure_collection: the two create_payload_index(...) calls
EIndex(p) ==
  /\ ens[p].pc = "index"
  /\ indexCreations' = indexCreations +
       (IF p = "ingestor" THEN IngestorEnsureIndexes(ens[p].saw)
                          ELSE MemEnsureIndexes(ens[p].saw))
  /\ ens' = [ens EXCEPT ![p].pc = "done"]
  /\ ProcUp(p)
  /\ UNCHANGED <<collection, points, creations, uuids, client, constructed,
                 tpc, tloc, tused, last>>

(* ------------------- concurrent callers of top_k ----------------------- *)
\* a request handler thread of the contextualizer enters top_k
TBegin(t) ==
  /\ tpc[t] = "idle"
  /\ tpc' = [tpc EXCEPT ![t] = "check"]
  /\ UNCHANGED <<collection, points, ingestorUp, memInstances, ensureCalls,
                 creations, indexCreations, uuids, client, constructed,
                 tloc, tused, last, ens>>

\* _client_lazy: if _client is None
TCheck(t) ==
  /\ tpc[t] = "check"
  /\ tpc' = [tpc EXCEPT ![t] = IF client = 0 THEN "construct" ELSE "return"]
  /\ UNCHANGED <<collection, points, ingestorUp, memInstances, ensureCalls,
                 creations, indexCreations, uuids, client, constructed,
                 tloc, tused, last, ens>>

\* _client_lazy: _client = QdrantClient(...)
TConstruct(t) ==
  /\ tpc[t] = "construct"
  /\ constructed' = constructed + 1
  /\ client' = constructed + 1
  /\ tpc' = [tpc EXCEPT ![t] = "return"]
  /\ UNCHANGED <<collection, points, ingestorUp, memInstances, ensureCalls,
                 creations, indexCreations, uuids, tloc, tused, last, ens>>

\* _client_lazy: return _client
TReturn(t) ==
  /\ tpc[t] = "return"
  /\ tloc' = [tloc EXCEPT ![t] = client]
  /\ tpc' = [tpc EXCEPT ![t] = "search"]
  /\ UNCHANGED <<collection, points, ingestorUp, memInstances, ensureCalls,
                 creations, indexCreations, uuids, client, constructed,
                 tused, last, ens>>

\* top_k: .search(...) on the handle _client_lazy returned
TSearch(t) ==
  /\ tpc[t] = "search"
  /\ tused' = [tused EXCEPT ![t] = tloc[t]]
  /\ tpc' = [tpc EXCEPT ![t] = "idle"]
  /\ UNCHANGED <<collection, points, ingestorUp, memInstances, ensureCalls,
                 creations, indexCreations, uuids, client, constructed,
                 tloc, last, ens>>


(* ------------------------------ properties ----------------------------- *)
IngestOps == {"ingest_one", "ingest_batch"}
EnsureOps == {"ingestor_startup", "mem_construct"}

\* an embedding call that fails: no response in time, a non-success
\* response carrying no vector, a response lacking the vector field
EmbedFailures == {"timeout", "err", "novec"}

\* C1: every hit top_k returns for conversation c belongs to a Memory that
\* was ingested with conversation_id = c
C1_FilterExact ==
  (last.op = "context" /\ last.status = "200") =>
    \A i \in 1..Len(last.hits) :
      last.hits[i].src.item.conversation_id = last.conv

\* C2: a batch in which some embedding call fails issues no upsert and
\* leaves the stored Memories as they were; when an upsert is issued it is
\* the only one and every item's embedding was computed before it
C2_BatchAllOrNothing ==
  [][last'.op = "ingest_batch" =>
       /\ (\E i \in 1..Len(last'.run) : last'.run[i] \in EmbedFailures) =>
            (points' = points /\ last'.upserts = 0 /\ last'.stored = {})
       /\ last'.upserts > 0 =>
            (last'.upserts = 1 /\ last'.embedCalls = last'.n)]_vars

C2_Witness ==
  /\ last.op = "ingest_batch" /\ last.n = 2 /\ Len(last.run) = 2
  /\ last.run[2] \in EmbedFailures
  /\ points # {}

\* C3: on a fresh deployment the first ensure_collection call creates the
\* collection once with its two payload indexes, and every later call creates
\* nothing
C3_EnsureIdempotent ==
  /\ ensureCalls >= 1 => (creations = 1 /\ indexCreations = 2)
  /\ (last.op \in EnsureOps /\ last.status = "ok") =>
       IF ensureCalls = 1
       THEN last.created = 1 /\ last.indexes = 2
       ELSE last.created = 0 /\ last.indexes = 0

C3_Witness ==
  /\ ensureCalls = 2 /\ last.op = "mem_construct" /\ last.status = "ok"
  /\ last.created = 0 /\ creations = 1

\* C4: in every stored payload the four reserved keys hold the item's own
\* field values, whatever extra_payload contains
C4_ReservedKeysWin ==
  \A p \in points :
    /\ p.payload.text = p.item.text
    /\ p.payload.role = p.item.role
    /\ p.payload.conversation_id = p.item.conversation_id
    /\ p.payload.ts = ItemTs(p.item.timestamp)

\* C5: upsert_one(item) followed by top_k with the item's conversation_id
\* and its stored vector returns that Memory, with the highest score of the
\* returned results
C5_ReadYourWrite ==
  [][(/\ last.op = "ingest_one" /\ last.status = "201"
      /\ last'.op = "context" /\ last'.status = "200"
      /\ \A p \in last.stored : /\ last'.conv = p.item.conversation_id
                                /\ last'.q = p.vector)
     => \E i \in 1..Len(last'.hits) :
          /\ last'.hits[i].src \in last.stored
          /\ \A j \in 1..Len(last'.hits) :
               last'.hits[i].score >= last'.hits[j].score]_vars

\* C6: an item with an empty text or conversation_id is rejected with a
\* validation error before any embedding request or upsert, and is not stored
C6_EmptyRejected ==
  (last.op \in IngestOps /\ last.invalid) =>
    /\ last.status = "422"
    /\ last.embedCalls = 0 /\ last.upserts = 0 /\ last.stored = {}

\* C7: a request with k outside 1..30 is answered with a validation error and
\* no search is issued; every k in 1..30 is accepted and searched
C7_KBound ==
  last.op = "context" =>
    IF last.k < 1 \/ last.k > 30
    THEN last.status = "422" /\ last.searches = 0
    ELSE last.status # "422" /\ last.searches = 1

C7_Witness ==
  last.op = "context" /\ last.k = 31 /\ last.status = "422"

\* C8: when the conversation holds n < k Memories, a search the store serves
\* succeeds and returns all n of them, each once, by non-increasing score
C8_FewerThanK ==
  LET M == Matching(points, last.conv)
      n == Len(last.hits)
  IN  (/\ last.op = "context" /\ last.searches = 1
       /\ last.storeUp /\ last.existed
       /\ last.k > Cardinality(M))
      => /\ last.status = "200"
         /\ n = Cardinality(M)
         /\ {last.hits[i].src : i \in 1..n} = M
         /\ \A i, j \in 1..n : i < j => last.hits[i].score >= last.hits[j].score

C8_Witness ==
  /\ last.op = "context" /\ last.status = "200" /\ last.k = KMax
  /\ Len(last.hits) = 2
  /\ last.hits[1].score > last.hits[2].score

\* C9: one QdrantClient is constructed per process and every caller of top_k
\* searches through that same handle
C9_ClientOnce ==
  /\ constructed <= 1
  /\ \A t, u \in Threads :
       (tused[t] # 0 /\ tused[u] # 0) => tused[t] = tused[u]

\* C10: no upsert and no search reaches the store while the collection does
\* not exist
C10_EnsureBeforeUse ==
  ((last.searches = 1 \/ last.upserts = 1) /\ last.storeUp) => last.existed

C12_ErrorKinds ==
  [][(/\ last.op \in IngestOps
      /\ \E i \in 1..Len(last.run) : last.run[i] \in EmbedFailures
      /\ last'.op \in IngestOps
      /\ last'.upserts = 1 /\ last'.status # "201")
     => last'.status # last.status]_vars

\* C13: a retrieval whose search fails answers with an error and no results;
\* a served retrieval answers without error, with an empty list when the
\* conversation holds nothing
C13_FailedVsEmpty ==
  (last.op = "context" /\ last.searches = 1) =>
    IF last.storeUp /\ last.existed
    THEN /\ last.status = "200"
         /\ Matching(points, last.conv) = {} => last.hits = <<>>
    ELSE /\ last.status = "500"
         /\ last.hits = <<>>

C13_Witness ==
  /\ last.op = "context" /\ last.status = "500" /\ last.hits = <<>>
  /\ last.existed /\ Matching(points, last.conv) # {}

\* C14: a write that got a non-success response, or a response lacking the
\* vector field, from the embedding backend fails and stores nothing
C14_BadResponseFails ==
  (/\ last.op \in IngestOps \cup {"mem_upsert"}
   /\ \E i \in 1..Len(last.run) : last.run[i] \in {"err", "err_vec", "novec"})
  => /\ last.status \notin {"201", "ok"}
     /\ last.upserts = 0 /\ last.stored = {}

\* C15: under any interleaving of the ensure_collection runs and the writes,
\* a collection is created only while none has been created, and a creation
\* removes no stored Memory
C15_CreatedOnce ==
  [][creations' > creations => (creations = 0 /\ points = {})]_vars

\* C16: a stored timestamp is the caller's whenever one was supplied, and the
\* time of the write when it was omitted
C16_TimestampKept ==
  \A p \in points :
    IF p.item.timestamp # NoInt
    THEN p.payload.ts = p.item.timestamp
    ELSE p.payload.ts = Now

(* --------------------------- specifications ---------------------------- *)
\* the two services as deployed, one request at a time
Next == IngestorStartup \/ IngestOne \/ IngestBatch \/ Context

Spec == Init /\ [][Next]_vars

\* a deployment that also uses the QdrantMemory wrapper
NextMem == IngestorStartup \/ MemConstruct \/ MemUpsert

SpecMem == Init /\ [][NextMem]_vars

\* both write paths against the same collection (ingest_one is _store on a
\* batch of one)
NextWrite == IngestorStartup \/ MemConstruct \/ IngestBatch \/ MemUpsert

SpecWrite == Init /\ [][NextWrite]_vars

\* threads of the contextualizer's pool inside top_k
NextLazy == \E t \in Threads :
              TBegin(t) \/ TCheck(t) \/ TConstruct(t) \/ TReturn(t) \/ TSearch(t)

SpecLazy == Init /\ [][NextLazy]_vars

\* the ingestor and a QdrantMemory user starting at the same time
NextEnsure == \/ \E p \in Procs : EList(p) \/ ECreate(p) \/ EIndex(p)
              \/ IngestOne
              \/ MemUpsert

SpecEnsure == Init /\ [][NextEnsure]_vars
====
